---- MODULE Spec2Model ----
(***************************************************************************)
(* Model of the catalog core of rivka-levit/ecommerce-api:                 *)
(*   - OrderField (product/fields.py) and the clean/save pair of           *)
(*     ProductLine and ProductImage (product/models.py);                   *)
(*   - the Category tree (product/models.py, an MPTTModel).                *)
(*                                                                         *)
(* An optional value (Python None or an integer) is a sequence of length   *)
(* at most one: None is <<>>, the integer v is <<v>>.                      *)
(***************************************************************************)
EXTENDS Integers, Sequences, FiniteSets, TLC

VARIABLES
    ops,          \* number of operations performed so far
    lines,        \* ProductLine rows: [id, product, ordering]
    nextLine,     \* next ProductLine id
    images,       \* ProductImage rows: [id, product_line, ordering]
    nextImage,    \* next ProductImage id
    last,         \* the operation performed by the last step, and its outcome
    streak,       \* history: the orderings stored by the successive creates
                  \* without ordering under one product since it was empty
    plvs,         \* ProductLineVariation rows: [id, variation, product_line]
    nextPlv       \* next ProductLineVariation id

orderVars == <<ops, lines, nextLine, images, nextImage, last, streak,
               plvs, nextPlv>>

\* Requests that create a product line while other requests run: each is at
\* one point of ProductLine.save (pc) and holds the instance being saved.
VARIABLES req

\* The Category table.  Category is an MPTTModel: besides its parent, each
\* row carries the nested-set columns lft, rght and tree_id that django-mptt
\* maintains and reads (the level column is written but never read by the
\* operations modelled here, and is left out).
VARIABLES
    cats,         \* Category rows: [id, parent, lft, rght, tree]; parent 0 is None
    nextCat,      \* next Category id
    catOps,       \* number of category operations performed so far
    catLast,      \* the category operation of the last step, and its outcome
    catUser       \* the user column of the Category rows: id -> user

catVars == <<cats, nextCat, catOps, catLast, catUser>>

\* The Product table, for the slug and the category of a product (the
\* ordering part above works on the fixed products of `products`).
VARIABLES
    prods,        \* Product rows: [id, name, slug, user, active, category];
                  \* category 0 is None
    nextProd      \* next Product id

prodVars == <<prods, nextProd>>

\* An OrderField declaration and its system check: the to_field it was
\* declared with, the names of the fields of its model, the errors the
\* check has reported, and whether the check has run.
VARIABLES chk

\* The Attribute and Variation tables, and the attributes attached to the
\* categories and to the products (the rows of the two many-to-many tables
\* behind category.attributes and product.attributes).
VARIABLES
    attrs,          \* Attribute rows: [id, user, name]
    nextAttr,       \* next Attribute id
    variationRows,  \* Variation rows: [id, user, attribute]
    catAttrs,       \* rows [category, attribute]
    prodAttrs,      \* rows [product, attribute]
    attrLast        \* the category or product update of the last step, when
                    \* attributes were involved: its payload, its outcome,
                    \* the attributes attached before

attrTables == <<attrs, nextAttr, variationRows, catAttrs, prodAttrs>>

attrVars == <<attrTables, attrLast>>

\* The user column of the ProductLine, ProductImage and
\* ProductLineVariation rows created by the requests of the users
\* (id -> user), and the request of the last step: who sent it, what it
\* named and how it was answered.
VARIABLES lineUser, imageUser, plvUser, apiLast

ownVars == <<lineUser, imageUser, plvUser, apiLast>>

vars == <<orderVars, req, catVars, prodVars, chk, attrVars, ownVars>>

----------------------------------------------------------------------------
(* Bounds of the model *)

MaxOps == 4           \* operations in one run
MaxLines == 3         \* ProductLine rows ever created
MaxImages == 2        \* ProductImage rows ever created
MaxOrd == 3           \* largest ordering value supplied or assigned
NumReqs == 2          \* requests running at the same time
MaxCats == 4          \* Category rows ever created
MaxCatOps == 6        \* category operations in one run
DeepCats == 5         \* the same two bounds, for the longer runs of
DeepCatOps == 8       \* SpecCatDeep
MaxPlvs == 3          \* ProductLineVariation rows ever created
MaxProds == 2         \* Product rows ever created in SpecProd
ListCats == 4         \* Category rows ever created in SpecList
ListCatOps == 5       \* category operations in one run of SpecList
ListProds == 1        \* Product rows ever created in SpecList
DelCats == 3          \* Category rows ever created in SpecDel
DelCatOps == 4        \* category operations in one run of SpecDel
DelProds == 2         \* Product rows ever created in SpecDel
ApiProds == 1         \* Product rows ever created in SpecApi
ApiOps == 3           \* requests on lines, images, variations in SpecApi
MaxAttrs == 3         \* Attribute rows ever present
AttrCats == 2         \* Category rows ever created in SpecAttr
AttrCatOps == 3       \* category operations in one run of SpecAttr
AttrProds == 1        \* Product rows ever created in SpecAttr

\* The Product rows of the catalog (created before the run, as in the setUp
\* of the tests; no operation of the model creates or deletes a product).
products == {1, 2}

\* The Variation rows of the catalog (created before the run, as in the
\* setUp of the tests): variation v belongs to user v and to attribute v,
\* an attribute of user v named "tag".
Variations == {1, 2}

VariationFixture == {[id |-> v, user |-> v, attribute |-> v] : v \in Variations}

AttributeFixture ==
    {[id |-> v, user |-> v, name |-> <<"t", "a", "g">>] : v \in Variations}

----------------------------------------------------------------------------
(* Optional values *)

None == <<>>
Some(v) == <<v>>
IsNone(o) == o = <<>>

\* The ordering values a caller may supply: None, a negative number, zero, ...
OrderingInputs == {None} \cup {Some(v) : v \in -1..MaxOrd}

Max(S) == CHOOSE m \in S : \A x \in S : x <= m

----------------------------------------------------------------------------
(* product/fields.py *)

\* OrderField is a PositiveIntegerField: the validators full_clean() runs on
\* it accept None (blank=True, null=True) and every integer from 0 upwards.
PositiveIntegerMin == 0

OrderField_valid(o) == IsNone(o) \/ o[1] >= PositiveIntegerMin

\* Mutant: the given value is overwritten as well.
OrderField_pre_save_always(o, all, scoped) ==
    IF all = {} THEN 1 ELSE Max({r.ordering : r \in all}) + 1

\* Mutant: the value is the number of rows of the scope plus one.
OrderField_pre_save_count(o, all, scoped) ==
    IF IsNone(o) THEN Cardinality(scoped) + 1 ELSE o[1]

\* OrderField.pre_save: when the attribute is None the value becomes
\* latest(ordering) + 1 over qs, or 1 when qs is empty.  qs is
\* self.model.objects.all(): the result of qs.filter(**query) is discarded,
\* so `scoped` (the rows sharing the instance's to_field value) is not used.
OrderField_pre_save(o, all, scoped) ==
    IF IsNone(o)
    THEN IF all = {} THEN 1 ELSE Max({r.ordering : r \in all}) + 1
    ELSE o[1]

\* Names a model's fields may have, and a to_field may be given.
FieldNames == {"ordering", "product", "product_line", "sku"}

\* Mutant: only a missing to_field is reported.
OrderField_check_field_attribute_none_only(to_field, fields) ==
    IF IsNone(to_field)
    THEN <<"OrderField must define a to_field attribute.">>
    ELSE <<>>

\* OrderField._check_field_attribute: the errors it returns for a field
\* declared with to_field on a model whose get_fields() have the names
\* `fields`.
OrderField_check_field_attribute(to_field, fields) ==
    IF IsNone(to_field)
    THEN <<"OrderField must define a to_field attribute.">>
    ELSE IF to_field[1] \notin fields
    THEN <<"Field name passed with to_field attribute does not match an existing model field.">>
    ELSE <<>>

\* ProductLine.ordering = OrderField(to_field='product', ...), not checked
\* yet.
ProductLine_ordering_field ==
    [to_field |-> Some("product"), fields |-> {"ordering", "product", "sku"},
     errors |-> <<>>, pc |-> "declared"]

----------------------------------------------------------------------------
(* product/models.py: ProductLine *)

\* Mutant: the rows are not compared at all.
ProductLine_clean_skipped(pk, product, o) == TRUE

\* Mutant: the rows of every product are compared.
ProductLine_clean_global(pk, product, o) ==
    \A obj \in {r \in lines : r.id # pk} : o # Some(obj.ordering)

\* Mutant: only a new row (pk None, here 0) is compared with the others.
ProductLine_clean_on_create(pk, product, o) ==
    pk # 0 \/ \A obj \in {r \in lines : r.product = product} :
                  o # Some(obj.ordering)

\* Mutant: the rows compared are those of the product the stored row has.
ProductLine_clean_stored_scope(pk, product, o) ==
    LET stored == {r \in lines : r.id = pk}
        scope == IF stored = {} THEN product
                 ELSE (CHOOSE r \in stored : TRUE).product
    IN \A obj \in {r \in lines : r.product = scope /\ r.id # pk} :
          o # Some(obj.ordering)

\* ProductLine.clean: no other row of the same product has this ordering.
ProductLine_clean(pk, product, o) ==
    \A obj \in {r \in lines : r.product = product /\ r.id # pk} :
        o # Some(obj.ordering)

\* self.full_clean(): field validators, then clean().
ProductLine_full_clean(pk, product, o) ==
    OrderField_valid(o) /\ ProductLine_clean(pk, product, o)

\* The value super().save() writes for the ordering column.
ProductLine_ordering(product, o) ==
    OrderField_pre_save(o, lines, {r \in lines : r.product = product})

----------------------------------------------------------------------------
(* product/models.py: ProductImage *)

ProductImage_clean(pk, product_line, o) ==
    \A obj \in {r \in images : r.product_line = product_line /\ r.id # pk} :
        o # Some(obj.ordering)

ProductImage_full_clean(pk, product_line, o) ==
    OrderField_valid(o) /\ ProductImage_clean(pk, product_line, o)

ProductImage_ordering(product_line, o) ==
    OrderField_pre_save(o, images,
                        {r \in images : r.product_line = product_line})

----------------------------------------------------------------------------
(* Operations *)

\* ord: the ordering supplied to a create or update, the ordering of the
\* row removed by a delete
Op(name, id, scope, ord, ok) ==
    [op |-> name, id |-> id, scope |-> scope, ord |-> ord, ok |-> ok]

\* kids, items: the ids of the direct children and of the products of a
\* category at its deletion
CatOp(name, id, parent, ok, kids, items) ==
    [op |-> name, id |-> id, parent |-> parent, ok |-> ok, kids |-> kids,
     items |-> items]

\* attributes: the attributes list of the payload (None: no such key);
\* before: the ids of the attributes attached when the request arrived
AttrOp(name, id, attributes, ok, before) ==
    [op |-> name, id |-> id, attributes |-> attributes, ok |-> ok,
     before |-> before]

NoAttrOp == AttrOp("none", 0, None, TRUE, {})

\* What is recorded of an update request: the request, when it carried an
\* attributes list or met attached attributes (otherwise it has nothing to
\* do with attributes).
UpdateOp(name, id, attributes, ok, before) ==
    IF IsNone(attributes) /\ before = {} THEN NoAttrOp
    ELSE AttrOp(name, id, attributes, ok, before)

\* ref: the slug or the ids the request named
ApiOp(name, user, ref, status) ==
    [op |-> name, user |-> user, ref |-> ref, status |-> status]

NoApiOp == ApiOp("none", 0, <<>>, "none")

Reqs == 1..NumReqs

Idle == [pc |-> "idle", product |-> 0, ord |-> None, val |-> 0]

NoStreak == [product |-> 0, vals |-> <<>>]

\* The history of creates without ordering after a write to the lines of
\* the products in `touched`; `auto` is the product of a successful create
\* without ordering (0: the write was not one) and v the ordering it stored.
StreakAfter(touched, auto, v) ==
    IF auto # 0 /\ {r \in lines : r.product = auto} = {}
    THEN [product |-> auto, vals |-> <<v>>]
    ELSE IF auto # 0 /\ streak.product = auto
    THEN [product |-> auto, vals |-> Append(streak.vals, v)]
    ELSE IF streak.product \in touched THEN NoStreak ELSE streak

InitTables ==
    /\ ops = 0
    /\ lines = {}
    /\ nextLine = 1
    /\ images = {}
    /\ nextImage = 1
    /\ last = Op("init", 0, 0, None, TRUE)
    /\ streak = NoStreak
    /\ plvs = {}
    /\ nextPlv = 1
    /\ req = [r \in Reqs |-> Idle]
    /\ cats = {}
    /\ nextCat = 1
    /\ catOps = 0
    /\ catLast = CatOp("init", 0, 0, TRUE, {}, {})
    /\ catUser = <<>>
    /\ prods = {}
    /\ nextProd = 1
    /\ attrs = AttributeFixture
    /\ nextAttr = Cardinality(AttributeFixture) + 1
    /\ variationRows = VariationFixture
    /\ catAttrs = {}
    /\ prodAttrs = {}
    /\ attrLast = NoAttrOp
    /\ lineUser = <<>>
    /\ imageUser = <<>>
    /\ plvUser = <<>>
    /\ apiLast = NoApiOp

Init == InitTables /\ chk = ProductLine_ordering_field

\* Any declaration of an OrderField, on any model.
InitCheck ==
    /\ InitTables
    /\ chk \in [to_field : {None} \cup {Some(f) : f \in FieldNames},
                fields : SUBSET FieldNames,
                errors : {<<>>}, pc : {"declared"}]

\* OrderField.check, run by the system checks: the errors of
\* _check_field_attribute are reported.
RunCheck ==
    /\ chk.pc = "declared"
    /\ chk' = [chk EXCEPT
                 !.errors = OrderField_check_field_attribute(chk.to_field,
                                                             chk.fields),
                 !.pc = "checked"]
    /\ UNCHANGED <<orderVars, req, catVars, prodVars, attrVars, ownVars>>

NextCheck == RunCheck

SpecCheck == InitCheck /\ [][NextCheck]_vars

\* ProductLine.objects.create(product=p, ordering=o): save() on a new row.
CreateProductLine(p, o) ==
    /\ ops < MaxOps
    /\ ops' = ops + 1
    /\ p \in products
    /\ nextLine <= MaxLines
    /\ ProductLine_ordering(p, o) <= MaxOrd
    /\ IF ProductLine_full_clean(0, p, o)
       THEN /\ lines' = lines \cup
                    {[id |-> nextLine, product |-> p,
                      ordering |-> ProductLine_ordering(p, o)]}
            /\ nextLine' = nextLine + 1
            /\ last' = Op("create_line", nextLine, p, o, TRUE)
            /\ streak' = StreakAfter({p}, IF IsNone(o) THEN p ELSE 0,
                                     ProductLine_ordering(p, o))
       ELSE /\ UNCHANGED <<lines, nextLine, streak>>
            /\ last' = Op("create_line", 0, p, o, FALSE)
    /\ UNCHANGED <<images, nextImage, plvs, nextPlv>>

\* An existing row gets product=p and ordering=o assigned, then save().
UpdateProductLine(l, p, o) ==
    /\ ops < MaxOps
    /\ ops' = ops + 1
    /\ l \in lines
    /\ p \in products
    /\ ProductLine_ordering(p, o) <= MaxOrd
    /\ IF ProductLine_full_clean(l.id, p, o)
       THEN /\ lines' = (lines \ {l}) \cup
                    {[id |-> l.id, product |-> p,
                      ordering |-> ProductLine_ordering(p, o)]}
            /\ last' = Op("update_line", l.id, p, o, TRUE)
            /\ streak' = StreakAfter({l.product, p}, 0, 0)
       ELSE /\ UNCHANGED <<lines, streak>>
            /\ last' = Op("update_line", l.id, p, o, FALSE)
    /\ UNCHANGED <<nextLine, images, nextImage, plvs, nextPlv>>

\* Mutant: the rows after the deleted one in its scope move up by one.
ProductLine_delete_renumber(T, l) ==
    {IF r.product = l.product /\ r.ordering > l.ordering
     THEN [r EXCEPT !.ordering = @ - 1] ELSE r : r \in T \ {l}}

\* Model.delete on a ProductLine: the row is removed; neither the model nor
\* OrderField has a hook that touches the other rows.
ProductLine_delete(T, l) == T \ {l}

\* Model.delete on a ProductImage.
ProductImage_delete(T, i) == T \ {i}

\* product_line.delete(): its images and its ProductLineVariation rows go
\* with it (CASCADE).
DeleteProductLine(l) ==
    /\ ops < MaxOps
    /\ ops' = ops + 1
    /\ l \in lines
    /\ lines' = ProductLine_delete(lines, l)
    /\ images' = {i \in images : i.product_line # l.id}
    /\ last' = Op("delete_line", l.id, l.product, Some(l.ordering), TRUE)
    /\ streak' = StreakAfter({l.product}, 0, 0)
    /\ plvs' = {r \in plvs : r.product_line # l.id}
    /\ UNCHANGED <<nextLine, nextImage, nextPlv>>

\* ProductImage.objects.create(product_line=pl, ordering=o).
CreateProductImage(pl, o) ==
    /\ ops < MaxOps
    /\ ops' = ops + 1
    /\ \E r \in lines : r.id = pl
    /\ nextImage <= MaxImages
    /\ ProductImage_ordering(pl, o) <= MaxOrd
    /\ IF ProductImage_full_clean(0, pl, o)
       THEN /\ images' = images \cup
                    {[id |-> nextImage, product_line |-> pl,
                      ordering |-> ProductImage_ordering(pl, o)]}
            /\ nextImage' = nextImage + 1
            /\ last' = Op("create_image", nextImage, pl, o, TRUE)
       ELSE /\ UNCHANGED <<images, nextImage>>
            /\ last' = Op("create_image", 0, pl, o, FALSE)
    /\ UNCHANGED <<lines, nextLine, streak, plvs, nextPlv>>

UpdateProductImage(i, pl, o) ==
    /\ ops < MaxOps
    /\ ops' = ops + 1
    /\ i \in images
    /\ \E r \in lines : r.id = pl
    /\ ProductImage_ordering(pl, o) <= MaxOrd
    /\ IF ProductImage_full_clean(i.id, pl, o)
       THEN /\ images' = (images \ {i}) \cup
                    {[id |-> i.id, product_line |-> pl,
                      ordering |-> ProductImage_ordering(pl, o)]}
            /\ last' = Op("update_image", i.id, pl, o, TRUE)
       ELSE /\ UNCHANGED images
            /\ last' = Op("update_image", i.id, pl, o, FALSE)
    /\ UNCHANGED <<lines, nextLine, nextImage, streak, plvs, nextPlv>>

DeleteProductImage(i) ==
    /\ ops < MaxOps
    /\ ops' = ops + 1
    /\ i \in images
    /\ images' = ProductImage_delete(images, i)
    /\ last' = Op("delete_image", i.id, i.product_line, Some(i.ordering), TRUE)
    /\ UNCHANGED <<lines, nextLine, nextImage, streak, plvs, nextPlv>>

NextSeq ==
    \/ \E p \in products, o \in OrderingInputs : CreateProductLine(p, o)
    \/ \E l \in lines, p \in products, o \in OrderingInputs :
          UpdateProductLine(l, p, o)
    \/ \E l \in lines : DeleteProductLine(l)
    \/ \E pl \in 1..MaxLines, o \in OrderingInputs : CreateProductImage(pl, o)
    \/ \E i \in images, pl \in 1..MaxLines, o \in OrderingInputs :
          UpdateProductImage(i, pl, o)
    \/ \E i \in images : DeleteProductImage(i)

\* One request at a time, each handled to its end.
Next == NextSeq /\ UNCHANGED <<req, chk, catVars, prodVars, attrVars, ownVars>>

Spec == Init /\ [][Next]_vars

----------------------------------------------------------------------------
(* Variations of a product line (ProductLineViewSet.attach_variation and    *)
(* detach_variation, ProductLineVariation)                                  *)

\* product_line.variations.all(), through ProductLineVariation
ProductLine_variations(pl) ==
    {r.variation : r \in {x \in plvs : x.product_line = pl}}

\* Mutant: the row is created whether or not the variation is attached.
NotAttached_always(pl, v) == TRUE

\* attach_variation: variation not in product_line.variations.all()
NotAttached(pl, v) == v \notin ProductLine_variations(pl)

\* ProductLineVariation.Meta.unique_together = ('variation', 'product_line'):
\* the INSERT of the pair goes through.
UniqueTogether(v, pl) ==
    ~\E r \in plvs : r.variation = v /\ r.product_line = pl

\* POST product-line/<pl>/attach-variation/<v>: get_object() (404 without
\* the line), Variation.objects.get (DoesNotExist without the variation),
\* then the join row is created unless the variation is already attached.
AttachVariation(pl, v) ==
    /\ ops < MaxOps
    /\ ops' = ops + 1
    /\ IF ~(\E l \in lines : l.id = pl)
          \/ v \notin {r.id : r \in variationRows}
       THEN /\ UNCHANGED <<plvs, nextPlv>>
            /\ last' = Op("attach", v, pl, None, FALSE)
       ELSE IF ~NotAttached(pl, v)
       THEN /\ UNCHANGED <<plvs, nextPlv>>
            /\ last' = Op("attach", v, pl, None, TRUE)
       ELSE IF UniqueTogether(v, pl)
       THEN /\ plvs' = plvs \cup {[id |-> nextPlv, variation |-> v,
                                   product_line |-> pl]}
            /\ nextPlv' = nextPlv + 1
            /\ last' = Op("attach", v, pl, None, TRUE)
       ELSE /\ UNCHANGED <<plvs, nextPlv>>
            /\ last' = Op("attach", v, pl, None, FALSE)
    /\ UNCHANGED <<lines, nextLine, images, nextImage, streak>>

\* POST product-line/<pl>/detach-variation/<v>: the join row of the pair is
\* deleted; 404 when there is none.
DetachVariation(pl, v) ==
    /\ ops < MaxOps
    /\ ops' = ops + 1
    /\ IF \E r \in plvs : r.product_line = pl /\ r.variation = v
       THEN /\ plvs' = {r \in plvs : ~(r.product_line = pl /\ r.variation = v)}
            /\ last' = Op("detach", v, pl, None, TRUE)
       ELSE /\ UNCHANGED plvs
            /\ last' = Op("detach", v, pl, None, FALSE)
    /\ UNCHANGED <<lines, nextLine, images, nextImage, streak, nextPlv>>

\* Product lines (created without ordering) and their variations.
NextVarSeq ==
    \/ \E p \in products : CreateProductLine(p, None)
    \/ \E l \in lines : DeleteProductLine(l)
    \/ \E pl \in 1..MaxLines, v \in 1..3 :
          nextPlv <= MaxPlvs /\ AttachVariation(pl, v)
    \/ \E pl \in 1..MaxLines, v \in 1..3 : DetachVariation(pl, v)

NextVar == NextVarSeq /\ UNCHANGED <<req, chk, catVars, prodVars, attrVars, ownVars>>

SpecVar == Init /\ [][NextVar]_vars

----------------------------------------------------------------------------
(* Requests handled at the same time.  ProductLine.objects.create() issues  *)
(* three statements, with no lock, transaction isolation or unique          *)
(* constraint on (product, ordering) around them: the SELECT of clean(),    *)
(* the SELECT of OrderField.pre_save and the INSERT.                        *)

\* The request arrives: ProductLine(product=p, ordering=o).save() begins.
ReqStart(r, p, o) ==
    /\ req[r].pc = "idle"
    /\ req' = [req EXCEPT ![r] =
                  [pc |-> "full_clean", product |-> p, ord |-> o, val |-> 0]]
    /\ UNCHANGED <<orderVars, catVars, prodVars, chk, attrVars, ownVars>>

\* self.full_clean()
ReqFullClean(r) ==
    /\ req[r].pc = "full_clean"
    /\ req' = [req EXCEPT ![r].pc =
                  IF ProductLine_full_clean(0, req[r].product, req[r].ord)
                  THEN "pre_save" ELSE "rejected"]
    /\ UNCHANGED <<orderVars, catVars, prodVars, chk, attrVars, ownVars>>

\* super().save(): OrderField.pre_save computes the value to write ...
ReqPreSave(r) ==
    /\ req[r].pc = "pre_save"
    /\ req' = [req EXCEPT ![r].pc = "insert",
                          ![r].val =
                              ProductLine_ordering(req[r].product, req[r].ord)]
    /\ UNCHANGED <<orderVars, catVars, prodVars, chk, attrVars, ownVars>>

\* ... and the row is inserted.
ReqInsert(r) ==
    /\ req[r].pc = "insert"
    /\ lines' = lines \cup {[id |-> nextLine, product |-> req[r].product,
                              ordering |-> req[r].val]}
    /\ nextLine' = nextLine + 1
    /\ req' = [req EXCEPT ![r].pc = "saved"]
    /\ UNCHANGED <<ops, images, nextImage, last, streak, plvs, nextPlv,
                   catVars, prodVars, chk, attrVars, ownVars>>

NextConc ==
    \/ \E r \in Reqs, p \in products, o \in OrderingInputs : ReqStart(r, p, o)
    \/ \E r \in Reqs : ReqFullClean(r)
    \/ \E r \in Reqs : ReqPreSave(r)
    \/ \E r \in Reqs : ReqInsert(r)

SpecConc == Init /\ [][NextConc]_vars

\* The same requests, and saves of stored lines as they are (a partial
\* update that names neither the ordering nor the product).
NextResave ==
    \/ \E r \in Reqs, p \in products, o \in OrderingInputs : ReqStart(r, p, o)
    \/ \E r \in Reqs : ReqFullClean(r)
    \/ \E r \in Reqs : ReqPreSave(r)
    \/ \E r \in Reqs : ReqInsert(r)
    \/ \E l \in lines :
          /\ UpdateProductLine(l, l.product, Some(l.ordering))
          /\ UNCHANGED <<req, chk, catVars, prodVars, attrVars, ownVars>>

SpecResave == Init /\ [][NextResave]_vars

----------------------------------------------------------------------------
(* product/models.py: Category(MPTTModel), order_insertion_by = ['name'].   *)
(* The operators below follow what MPTTModel.save, MPTTModel.delete and     *)
(* the TreeManager do to the table.  Categories are named in the order of   *)
(* their creation, so comparing names is comparing ids.                     *)

Min(S) == CHOOSE m \in S : \A x \in S : m <= x

Cat(T, id) == CHOOSE r \in T : r.id = id

Moved(T) == [ok |-> TRUE, T |-> T]
InvalidMove(T) == [ok |-> FALSE, T |-> T]

\* TreeManager._get_next_tree_id
NextTreeId(T) == IF T = {} THEN 1 ELSE Max({r.tree : r \in T}) + 1

\* TreeManager._manage_space (_create_space, and _close_gap with -size)
ManageSpace(T, size, target, tree) ==
    {IF r.tree = tree
     THEN [r EXCEPT !.lft = IF @ > target THEN @ + size ELSE @,
                    !.rght = IF @ > target THEN @ + size ELSE @]
     ELSE r : r \in T}

\* TreeManager._create_tree_space
CreateTreeSpace(T, target_tree) ==
    {[r EXCEPT !.tree = IF @ > target_tree THEN @ + 1 ELSE @] : r \in T}

\* TreeManager._calculate_inter_tree_move_values: the space target
SpaceTarget(target, position) ==
    CASE position = "last-child" -> target.rght - 1
      [] position = "left" -> target.lft - 1
      [] position = "right" -> target.rght

\* The parent the moved node gets: the target, or the target's parent.
NewParent(target, position) ==
    IF position = "last-child" THEN target.id ELSE target.parent

\* MPTTOptions.get_ordered_insertion_target: the sibling under `parent`
\* (0: among the roots) before which the node is to be placed, 0 if none.
GetOrderedInsertionTarget(T, id, parent) ==
    LET withChildren == parent = 0 \/ (LET p == Cat(T, parent)
                                       IN (p.rght - p.lft - 1) \div 2 > 0)
        later == {r \in T : r.parent = parent /\ r.id > id}
    IN IF withChildren /\ later # {} THEN Min({r.id : r \in later}) ELSE 0

\* TreeManager._inter_tree_move_and_close_gap
InterTreeMoveAndCloseGap(T, left, right, tree, left_right_change, new_tree) ==
    LET gap_size == right - left + 1
        gap_target_left == left - 1
    IN {IF r.tree # tree THEN r
        ELSE [r EXCEPT
                !.tree = IF r.lft >= left /\ r.lft <= right
                         THEN new_tree ELSE @,
                !.lft = IF r.lft >= left /\ r.lft <= right
                        THEN @ - left_right_change
                        ELSE IF r.lft > gap_target_left
                        THEN @ - gap_size ELSE @,
                !.rght = IF r.rght >= left /\ r.rght <= right
                         THEN @ - left_right_change
                         ELSE IF r.rght > gap_target_left
                         THEN @ - gap_size ELSE @]
        : r \in T}

\* TreeManager._make_child_root_node
MakeChildRootNode(T, left, right, tree, new_tree) ==
    InterTreeMoveAndCloseGap(T, left, right, tree, left - 1, new_tree)

\* TreeManager._make_sibling_of_root_node, for a node that has a parent
\* (the only case save() reaches when the name is not changed).
MakeSiblingOfRootNode(T, node, target, position) ==
    IF node.id = target.id THEN InvalidMove(T)
    ELSE LET space_target == IF position = "left"
                             THEN target.tree - 1 ELSE target.tree
             new_tree == IF position = "left"
                         THEN target.tree ELSE target.tree + 1
             tree == IF node.tree > space_target
                     THEN node.tree + 1 ELSE node.tree
         IN Moved(MakeChildRootNode(CreateTreeSpace(T, space_target),
                                    node.lft, node.rght, tree, new_tree))

\* TreeManager._move_root_node
MoveRootNode(T, node, target, position) ==
    IF node.id = target.id \/ node.tree = target.tree THEN InvalidMove(T)
    ELSE LET width == node.rght - node.lft + 1
             space_target == SpaceTarget(target, position)
             left_right_change == node.lft - space_target - 1
             T1 == ManageSpace(T, width, space_target, target.tree)
         IN Moved({IF r.lft >= node.lft /\ r.lft <= node.rght
                      /\ r.tree = node.tree
                   THEN [r EXCEPT !.lft = @ - left_right_change,
                                  !.rght = @ - left_right_change,
                                  !.tree = target.tree]
                   ELSE r : r \in T1})

\* TreeManager._move_child_to_new_tree
MoveChildToNewTree(T, node, target, position) ==
    LET width == node.rght - node.lft + 1
        space_target == SpaceTarget(target, position)
        left_right_change == node.lft - space_target - 1
        T1 == ManageSpace(T, width, space_target, target.tree)
    IN Moved(InterTreeMoveAndCloseGap(T1, node.lft, node.rght, node.tree,
                                      left_right_change, target.tree))

\* Mutant: a node may be moved below itself or into its own interval.
NotIntoOwnSubtree_unchecked(node, target) == TRUE

\* The check of TreeManager._move_child_within_tree: InvalidMove unless ...
NotIntoOwnSubtree(node, target) ==
    /\ node.id # target.id
    /\ ~(node.lft < target.lft /\ target.lft < node.rght)

\* TreeManager._move_child_within_tree
MoveChildWithinTree(T, node, target, position) ==
    IF ~NotIntoOwnSubtree(node, target) THEN InvalidMove(T)
    ELSE LET left == node.lft
             right == node.rght
             width == right - left + 1
             new_left ==
                 IF position = "last-child"
                 THEN IF target.rght > right
                      THEN target.rght - width ELSE target.rght
                 ELSE IF target.lft > left
                      THEN target.lft - width ELSE target.lft
             new_right == new_left + width - 1
             left_boundary == IF left < new_left THEN left ELSE new_left
             right_boundary == IF right > new_right THEN right ELSE new_right
             left_right_change == new_left - left
             gap_size == IF left_right_change > 0 THEN -width ELSE width
         IN Moved({IF r.tree # node.tree THEN r
                   ELSE [r EXCEPT
                           !.lft = IF r.lft >= left /\ r.lft <= right
                                   THEN @ + left_right_change
                                   ELSE IF r.lft >= left_boundary
                                           /\ r.lft <= right_boundary
                                   THEN @ + gap_size ELSE @,
                           !.rght = IF r.rght >= left /\ r.rght <= right
                                    THEN @ + left_right_change
                                    ELSE IF r.rght >= left_boundary
                                            /\ r.rght <= right_boundary
                                    THEN @ + gap_size ELSE @]
                   : r \in T})

\* TreeManager._move_node
MoveNode(T, node, target, position) ==
    IF target.parent = 0 /\ position \in {"left", "right"}
    THEN MakeSiblingOfRootNode(T, node, target, position)
    ELSE IF node.parent = 0
    THEN MoveRootNode(T, node, target, position)
    ELSE IF node.tree = target.tree
    THEN MoveChildWithinTree(T, node, target, position)
    ELSE MoveChildToNewTree(T, node, target, position)

\* TreeManager.insert_node, for the new node `id` of MPTTModel.save: before
\* its right sibling if the names give one, else as last child of `parent`,
\* else as the root of a new tree.
InsertNode(T, id, parent) ==
    LET sibling == GetOrderedInsertionTarget(T, id, parent)
        position == IF sibling # 0 THEN "left" ELSE "last-child"
        target == IF sibling # 0 THEN Cat(T, sibling) ELSE Cat(T, parent)
    IN IF sibling = 0 /\ parent = 0
       THEN T \cup {[id |-> id, parent |-> 0, lft |-> 1, rght |-> 2,
                     tree |-> NextTreeId(T)]}
       ELSE IF target.parent = 0 /\ position = "left"
       THEN CreateTreeSpace(T, target.tree - 1) \cup
               {[id |-> id, parent |-> 0, lft |-> 1, rght |-> 2,
                 tree |-> target.tree]}
       ELSE LET space_target == SpaceTarget(target, position)
            IN ManageSpace(T, 2, space_target, target.tree) \cup
                  {[id |-> id, parent |-> NewParent(target, position),
                    lft |-> space_target + 1, rght |-> space_target + 2,
                    tree |-> target.tree]}

\* MPTTModel.save of the existing row `node` whose parent was set to
\* `parent`: the node is moved when the parent has changed, and the move
\* raises InvalidMove before anything is written.
SaveMoved(T, node, parent) ==
    IF node.parent = parent THEN Moved(T)
    ELSE LET sibling == GetOrderedInsertionTarget(T, node.id, parent)
             roots == {r \in T : r.parent = 0 /\ r.id # node.id}
             rightmost == CHOOSE r \in roots :
                              \A x \in roots : x.tree <= r.tree
             res == IF sibling # 0
                    THEN MoveNode(T, node, Cat(T, sibling), "left")
                    ELSE IF parent = 0
                    THEN IF roots = {} THEN Moved(T)
                         ELSE MoveNode(T, node, rightmost, "right")
                    ELSE MoveNode(T, node, Cat(T, parent), "last-child")
         IN IF res.ok
            THEN Moved({IF r.id = node.id THEN [r EXCEPT !.parent = parent]
                        ELSE r : r \in res.T})
            ELSE res

\* Mutant: the children are deleted with the node (on_delete=CASCADE).
DeleteNode_cascade(T, node) ==
    {r \in ManageSpace(T, -(node.rght - node.lft + 1), node.rght, node.tree) :
        r.id # node.id /\ r.parent # node.id}

\* Mutant: the parent of every row below the node is cleared, not only
\* that of its children.
DeleteNode_orphan_subtree(T, node) ==
    LET T1 == ManageSpace(T, -(node.rght - node.lft + 1), node.rght, node.tree)
    IN {IF r.parent = node.id \/ node.id \in {a.parent : a \in
                                 {x \in T : x.id = r.parent}}
        THEN [r EXCEPT !.parent = 0] ELSE r
        : r \in {x \in T1 : x.id # node.id}}

\* MPTTModel.delete closes the gap of the node's whole interval; then the
\* row is deleted and on_delete=SET_NULL clears the parent of its children
\* with an UPDATE (their lft, rght and tree_id stay as they are).
DeleteNode(T, node) ==
    LET T1 == ManageSpace(T, -(node.rght - node.lft + 1), node.rght, node.tree)
    IN {IF r.parent = node.id THEN [r EXCEPT !.parent = 0] ELSE r
        : r \in {x \in T1 : x.id # node.id}}

\* MPTTModel.get_descendant_count
GetDescendantCount(node) == (node.rght - node.lft - 1) \div 2

\* MPTTModel.get_descendants(include_self): the ids of the rows it selects.
\* A leaf (descendant count 0) gives itself or nothing; otherwise the rows
\* of the node's tree_id whose lft lies in its interval.
GetDescendants(T, node, include_self) ==
    IF GetDescendantCount(node) = 0
    THEN IF include_self THEN {node.id} ELSE {}
    ELSE LET left == IF include_self THEN node.lft ELSE node.lft + 1
             right == IF include_self THEN node.rght ELSE node.rght - 1
         IN {r.id : r \in {x \in T : /\ x.tree = node.tree
                                     /\ x.lft >= left /\ x.lft <= right}}

----------------------------------------------------------------------------
(* Attributes of categories and products (get_or_create_parameter,          *)
(* CategorySerializer and ProductSerializer)                                *)

\* The users that send requests.
Users == {1, 2}

\* str.lower() on the characters used here
Lower(c) == CASE c = "T" -> "t" [] c = "M" -> "m" [] OTHER -> c

LowerStr(str) == [i \in DOMAIN str |-> Lower(str[i])]

\* Attribute names a request may give.
AttrNames == {<<"T", "a", "g">>, <<"t", "a", "g">>, <<"g", "e", "m">>}

\* The attributes entry of a payload: no such key, or a list of names.
AttrPayloads ==
    {None, Some(<<>>), Some(<<<<"T", "a", "g">>>>), Some(<<<<"g", "e", "m">>>>),
     Some(<<<<"g", "e", "m">>, <<"T", "a", "g">>>>)}

\* validated_data.pop('attributes', [])
PopAttributes(attributes) ==
    IF IsNone(attributes) THEN <<>> ELSE attributes[1]

\* get_or_create_parameter(user, {'name': name}, Attribute): the name is
\* lower-cased, then Attribute.objects.get_or_create(user=user, name=name)
\* returns the one row of the user with this name, creates it when there is
\* none, and raises MultipleObjectsReturned (ok FALSE) when there are more.
GetOrCreateParameter(A, next, user, name) ==
    LET found == {a \in A : a.user = user /\ a.name = LowerStr(name)}
    IN IF found = {}
       THEN [ok |-> TRUE, next |-> next + 1, id |-> next,
             A |-> A \cup {[id |-> next, user |-> user,
                            name |-> LowerStr(name)]}]
       ELSE IF Cardinality(found) = 1
       THEN [ok |-> TRUE, next |-> next, id |-> (CHOOSE a \in found : TRUE).id,
             A |-> A]
       ELSE [ok |-> FALSE, next |-> next, id |-> 0, A |-> A]

\* for attribute in attributes:
\*     self._get_or_create_and_assign_attribute(attribute, Attribute, instance)
\* attached: the attributes of the instance; saves: the number of
\* instance.save() calls made (one after each add).  The loop ends at the
\* first get_or_create that raises.
RECURSIVE AssignAttributes(_, _, _, _, _)
AssignAttributes(A, next, attached, user, attributes) ==
    IF attributes = <<>>
    THEN [ok |-> TRUE, A |-> A, next |-> next, attached |-> attached,
          saves |-> 0]
    ELSE LET got == GetOrCreateParameter(A, next, user, Head(attributes))
         IN IF ~got.ok
            THEN [ok |-> FALSE, A |-> A, next |-> next, attached |-> attached,
                  saves |-> 0]
            ELSE LET rest == AssignAttributes(got.A, got.next,
                                              attached \cup {got.id}, user,
                                              Tail(attributes))
                 IN [rest EXCEPT !.saves = @ + 1]

\* Mutant: the attributes attached before stay attached.
ReplaceAttributes_keep(A, next, attached, user, attributes) ==
    AssignAttributes(A, next, attached, user, attributes)

\* instance.attributes.clear() and then the loop over the payload's list.
ReplaceAttributes(A, next, attached, user, attributes) ==
    AssignAttributes(A, next, {}, user, attributes)

\* category.attributes.all() / product.attributes.all(): ids
Category_attributes(c) ==
    {r.attribute : r \in {x \in catAttrs : x.category = c}}

Product_attributes(p) ==
    {r.attribute : r \in {x \in prodAttrs : x.product = p}}

\* AttributeViewSet.create: Attribute.objects.create(user=user, name=name),
\* the name stored as given.
CreateAttribute(user, name) ==
    /\ attrs' = attrs \cup {[id |-> nextAttr, user |-> user, name |-> name]}
    /\ nextAttr' = nextAttr + 1
    /\ attrLast' = NoAttrOp
    /\ UNCHANGED <<variationRows, catAttrs, prodAttrs>>
    /\ UNCHANGED <<orderVars, req, chk, catVars, prodVars, ownVars>>

----------------------------------------------------------------------------
(* Category operations (CategoryViewSet, CategorySerializer) *)

\* CategorySerializer.create: Category.objects.create(parent=..., user=user)
\* with the requesting user (BaseStoreViewSet.perform_create).
CreateCategory(parent, user) ==
    /\ parent = 0 \/ \E r \in cats : r.id = parent
    /\ cats' = InsertNode(cats, nextCat, parent)
    /\ nextCat' = nextCat + 1
    /\ catOps' = catOps + 1
    /\ catLast' = CatOp("create", nextCat, parent, TRUE, {}, {})
    /\ catUser' = (nextCat :> user) @@ catUser
    /\ attrLast' = NoAttrOp
    /\ UNCHANGED <<orderVars, req, chk, prodVars, attrTables, ownVars>>

\* CategorySerializer.update, requested by the owner of the category
\* (get_queryset), with a parent in the payload (the current parent stands
\* for a payload without one): instance.attributes.clear(); each attribute
\* of the payload is got or created and added, with an instance.save()
\* that finds the parent as it was; then setattr(instance, 'parent', value)
\* and instance.save(), which is where a move is made or refused.
UpdateCategory(c, parent, attributes) ==
    /\ c \in cats
    /\ parent = 0 \/ \E r \in cats : r.id = parent
    /\ LET before == Category_attributes(c.id)
           asg == ReplaceAttributes(attrs, nextAttr, before, catUser[c.id],
                                    PopAttributes(attributes))
           res == IF asg.ok THEN SaveMoved(cats, c, parent)
                  ELSE [ok |-> FALSE, T |-> cats]
       IN /\ attrs' = asg.A
          /\ nextAttr' = asg.next
          /\ catAttrs' = {x \in catAttrs : x.category # c.id} \cup
                  {[category |-> c.id, attribute |-> a] : a \in asg.attached}
          /\ cats' = res.T
          /\ catLast' = CatOp("update", c.id, parent, res.ok, {}, {})
          /\ attrLast' = UpdateOp("update_category", c.id, attributes, res.ok,
                                  before)
    /\ catOps' = catOps + 1
    /\ UNCHANGED <<nextCat, catUser, orderVars, req, chk, prodVars, ownVars,
                   variationRows, prodAttrs>>

\* Mutant: the products of the category are deleted with it (CASCADE).
Product_category_on_delete_cascade(P, category) ==
    {p \in P : p.category # category}

\* Product.category is on_delete=SET_NULL: when the category is deleted its
\* products stay, with category None.
Product_category_on_delete(P, category) ==
    {IF p.category = category THEN [p EXCEPT !.category = 0] ELSE p : p \in P}

\* CategoryViewSet.destroy: instance.delete(), which clears the references
\* to the row (Category.parent, Product.category) and deletes it.
DeleteCategory(c) ==
    /\ c \in cats
    /\ cats' = DeleteNode(cats, c)
    /\ catOps' = catOps + 1
    /\ catLast' = CatOp("delete", c.id, c.parent, TRUE,
                       {r.id : r \in {x \in cats : x.parent = c.id}},
                       {p.id : p \in {x \in prods : x.category = c.id}})
    /\ catUser' = [i \in DOMAIN catUser \ {c.id} |-> catUser[i]]
    /\ prods' = Product_category_on_delete(prods, c.id)
    /\ catAttrs' = {x \in catAttrs : x.category # c.id}
    /\ attrLast' = NoAttrOp
    /\ UNCHANGED <<nextCat, nextProd, orderVars, req, chk, ownVars,
                   attrs, nextAttr, variationRows, prodAttrs>>

\* Runs of at most MaxCatOps category operations that create at most
\* MaxCats categories, all requested by user 1.
NextCat ==
    \/ \E parent \in 0..MaxCats :
          catOps < MaxCatOps /\ nextCat <= MaxCats /\ CreateCategory(parent, 1)
    \/ \E c \in cats, parent \in 0..MaxCats :
          catOps < MaxCatOps /\ UpdateCategory(c, parent, None)
    \/ \E c \in cats :
          catOps < MaxCatOps /\ DeleteCategory(c)

\* The same with the bounds DeepCatOps and DeepCats.
NextCatDeep ==
    \/ \E parent \in 0..DeepCats :
          catOps < DeepCatOps /\ nextCat <= DeepCats
              /\ CreateCategory(parent, 1)
    \/ \E c \in cats, parent \in 0..DeepCats :
          catOps < DeepCatOps /\ UpdateCategory(c, parent, None)
    \/ \E c \in cats :
          catOps < DeepCatOps /\ DeleteCategory(c)

SpecCat == Init /\ [][NextCat]_vars

SpecCatDeep == Init /\ [][NextCatDeep]_vars

----------------------------------------------------------------------------
(* product/models.py: Product.  A string is a sequence of one-character    *)
(* strings.                                                                *)

\* Product names a request may give.
Names == {<<"T", "e", "a">>, <<"t", "e", "a">>, <<"m", "u", "g">>}

\* Readings of str(datetime.now().timestamp()): 1.5, 1.25 and 12.5.
Times == {<<"1", ".", "5">>, <<"1", ".", "2", "5">>, <<"1", "2", ".", "5">>}

\* \w of the regular expressions of slugify, after lower()
IsWord(c) == c \in {"t", "e", "a", "m", "u", "g", "_",
                    "0", "1", "2", "3", "4", "5", "6", "7", "8", "9"}

\* [-\s]
IsSep(c) == c \in {" ", "-"}

RECURSIVE DropSeps(_)
DropSeps(str) ==
    IF str # <<>> /\ IsSep(Head(str)) THEN DropSeps(Tail(str)) ELSE str

\* re.sub(r'[-\s]+', '-', value)
RECURSIVE CollapseSeps(_)
CollapseSeps(str) ==
    IF str = <<>> THEN <<>>
    ELSE IF IsSep(Head(str))
    THEN <<"-">> \o CollapseSeps(DropSeps(Tail(str)))
    ELSE <<Head(str)>> \o CollapseSeps(Tail(str))

\* .strip('-_')
RECURSIVE Strip(_)
Strip(str) ==
    IF str # <<>> /\ Head(str) \in {"-", "_"} THEN Strip(Tail(str))
    ELSE IF str # <<>> /\ str[Len(str)] \in {"-", "_"}
    THEN Strip(SubSeq(str, 1, Len(str) - 1))
    ELSE str

\* django.utils.text.slugify: lower-case, drop what is neither a word
\* character nor white space nor a hyphen, turn each run of white space and
\* hyphens into one hyphen, strip hyphens and underscores at both ends.
Slugify(str) ==
    LET lowered == [i \in 1..Len(str) |-> Lower(str[i])]
        kept == SelectSeq(lowered, LAMBDA c : IsWord(c) \/ IsSep(c))
    IN Strip(CollapseSeps(kept))

\* Mutant: the slug is derived again at every save.
Product_save_always(adding, name, now, slug) ==
    Slugify(name \o <<" ">> \o now)

\* Product.save: the slug column after save().  When the row is being added
\* it is slugify(f'{name} {datetime.now().timestamp()}'), else it is kept.
Product_save(adding, name, now, slug) ==
    IF adding THEN Slugify(name \o <<" ">> \o now) ELSE slug

\* ProductSerializer.create for the requesting user: the row is created
\* (first save), the category named in the payload (0: none) is looked up
\* with get_object_or_404 and assigned, and the row is saved again.  When
\* no such category exists the request ends in the lookup, after the row
\* was created.
CreateProduct(user, name, now, active, category) ==
    /\ LET created == [id |-> nextProd, name |-> name,
                       slug |-> Product_save(TRUE, name, now, <<>>),
                       user |-> user, active |-> active, category |-> 0]
       IN IF category # 0 /\ ~\E c \in cats : c.id = category
          THEN prods' = prods \cup {created}
          ELSE prods' = prods \cup
                  {[created EXCEPT
                      !.category = category,
                      !.slug = Product_save(FALSE, name, now, created.slug)]}
    /\ nextProd' = nextProd + 1
    /\ attrLast' = NoAttrOp
    /\ UNCHANGED <<orderVars, req, chk, catVars, attrTables, ownVars>>

\* ProductSerializer.update, requested by the owner of the product
\* (get_queryset): the category named in the payload (0: none) is looked up
\* (404 without it) and assigned to the instance;
\* instance.attributes.clear(); each attribute of the payload is got or
\* created and added, with an instance.save() that writes the instance as
\* it is by then; then the other fields are set and the row is saved.
UpdateProduct(p, name, now, active, category, attributes) ==
    /\ p \in prods
    /\ LET before == Product_attributes(p.id)
           found == category = 0 \/ \E c \in cats : c.id = category
           asg == ReplaceAttributes(attrs, nextAttr, before, p.user,
                                    PopAttributes(attributes))
           assigned == [p EXCEPT
                          !.category = IF category # 0 THEN category ELSE @]
       IN /\ IF ~found
             THEN UNCHANGED <<prods, attrs, nextAttr, prodAttrs>>
             ELSE /\ attrs' = asg.A
                  /\ nextAttr' = asg.next
                  /\ prodAttrs' = {x \in prodAttrs : x.product # p.id} \cup
                        {[product |-> p.id, attribute |-> a]
                            : a \in asg.attached}
                  /\ prods' =
                        IF asg.ok
                        THEN (prods \ {p}) \cup
                               {[assigned EXCEPT
                                   !.name = name,
                                   !.active = active,
                                   !.slug = Product_save(FALSE, name, now,
                                                         p.slug)]}
                        ELSE IF asg.saves > 0
                        THEN (prods \ {p}) \cup
                               {[assigned EXCEPT
                                   !.slug = Product_save(FALSE, p.name, now,
                                                         p.slug)]}
                        ELSE prods
          /\ attrLast' = UpdateOp("update_product", p.id, attributes,
                                  found /\ asg.ok, before)
    /\ UNCHANGED <<nextProd, orderVars, req, chk, catVars, ownVars,
                   variationRows, catAttrs>>

\* ProductViewSet.destroy
DeleteProduct(p) ==
    /\ p \in prods
    /\ prods' = prods \ {p}
    /\ prodAttrs' = {x \in prodAttrs : x.product # p.id}
    /\ attrLast' = NoAttrOp
    /\ UNCHANGED <<nextProd, orderVars, req, chk, catVars, ownVars,
                   attrs, nextAttr, variationRows, catAttrs>>

\* ProductViewSet.get_queryset for `user` with ?category= naming the
\* category with id `category`: the ids of the rows of the queryset.
ProductList(user, category) ==
    LET queryset == {p \in prods : p.active /\ p.user = user}
        found == {c \in cats : c.id = category /\ catUser[c.id] = user}
    IN IF found = {} THEN {p.id : p \in queryset}
       ELSE LET categories ==
                    GetDescendants(cats, CHOOSE c \in found : TRUE, TRUE)
            IN {p.id : p \in {x \in queryset : x.category \in categories}}

\* Product requests alone: at most MaxProds products are created.
NextProd ==
    \/ \E user \in Users, name \in Names, now \in Times, active \in BOOLEAN,
          category \in 0..1 :
          nextProd <= MaxProds /\ CreateProduct(user, name, now, active, category)
    \/ \E p \in prods, name \in Names, now \in Times, active \in BOOLEAN,
          category \in 0..1 :
          UpdateProduct(p, name, now, active, category, None)
    \/ \E p \in prods : DeleteProduct(p)

SpecProd == Init /\ [][NextProd]_vars

\* Category and product requests of the users: at most ListCatOps category
\* operations, ListCats categories and ListProds products (all with the
\* same name, created at the same clock reading).
NextList ==
    \/ \E parent \in 0..ListCats, user \in Users :
          catOps < ListCatOps /\ nextCat <= ListCats
              /\ CreateCategory(parent, user)
    \/ \E c \in cats, parent \in 0..ListCats :
          catOps < ListCatOps /\ UpdateCategory(c, parent, None)
    \/ \E c \in cats :
          catOps < ListCatOps /\ DeleteCategory(c)
    \/ \E user \in Users, active \in BOOLEAN, category \in 0..ListCats :
          nextProd <= ListProds
              /\ CreateProduct(user, <<"t", "e", "a">>, <<"1", ".", "5">>,
                               active, category)
    \/ \E p \in prods, active \in BOOLEAN, category \in 0..ListCats :
          UpdateProduct(p, <<"t", "e", "a">>, <<"1", ".", "5">>,
                        active, category, None)
    \/ \E p \in prods : DeleteProduct(p)

SpecList == Init /\ [][NextList]_vars

\* Category and product requests of one user, for the references to a
\* deleted category: at most DelCatOps category operations, DelCats
\* categories and DelProds products (same name, same clock reading).
NextDel ==
    \/ \E parent \in 0..DelCats :
          catOps < DelCatOps /\ nextCat <= DelCats /\ CreateCategory(parent, 1)
    \/ \E c \in cats, parent \in 0..DelCats :
          catOps < DelCatOps /\ UpdateCategory(c, parent, None)
    \/ \E c \in cats :
          catOps < DelCatOps /\ DeleteCategory(c)
    \/ \E category \in 0..DelCats :
          nextProd <= DelProds
              /\ CreateProduct(1, <<"t", "e", "a">>, <<"1", ".", "5">>,
                               TRUE, category)
    \/ \E p \in prods, category \in 0..DelCats :
          UpdateProduct(p, <<"t", "e", "a">>, <<"1", ".", "5">>,
                        TRUE, category, None)
    \/ \E p \in prods : DeleteProduct(p)

SpecDel == Init /\ [][NextDel]_vars

\* Requests of user 1 that carry attributes: category and product updates
\* with any of the payloads of AttrPayloads, and attributes created through
\* the attribute endpoint.  At most AttrCatOps category operations,
\* AttrCats categories, AttrProds products and MaxAttrs attributes.
NextAttr ==
    \/ \E parent \in 0..AttrCats :
          catOps < AttrCatOps /\ nextCat <= AttrCats
              /\ CreateCategory(parent, 1)
    \/ \E c \in cats, parent \in 0..AttrCats, attributes \in AttrPayloads :
          catOps < AttrCatOps
              /\ nextAttr + Len(PopAttributes(attributes)) <= MaxAttrs + 1
              /\ UpdateCategory(c, parent, attributes)
    \/ nextProd <= AttrProds
          /\ CreateProduct(1, <<"t", "e", "a">>, <<"1", ".", "5">>, TRUE, 0)
    \/ \E p \in prods, attributes \in AttrPayloads :
          nextAttr + Len(PopAttributes(attributes)) <= MaxAttrs + 1
              /\ UpdateProduct(p, <<"t", "e", "a">>, <<"1", ".", "5">>, TRUE,
                               0, attributes)
    \/ \E name \in AttrNames :
          nextAttr <= MaxAttrs /\ CreateAttribute(1, name)

SpecAttr == Init /\ [][NextAttr]_vars

----------------------------------------------------------------------------
(* Properties of the ordering field *)

LinesOf(p) == {r \in lines : r.product = p}
ImagesOf(pl) == {i \in images : i.product_line = pl}

\* 1 + the largest ordering of the rows, 1 when there are none.
NextAfter(rows) ==
    IF rows = {} THEN 1 ELSE Max({r.ordering : r \in rows}) + 1

\* The step is a create of a product line (image) that went through.
CreatedLine == ops' # ops /\ last'.op = "create_line" /\ last'.ok
CreatedImage == ops' # ops /\ last'.op = "create_image" /\ last'.ok

\* In every state of the sequential catalog the orderings of the lines of one
\* product, and of the images of one line, are pairwise distinct.
OrderingsDistinct ==
    /\ \A r1, r2 \in lines :
          r1.product = r2.product /\ r1.id # r2.id
              => r1.ordering # r2.ordering
    /\ \A i1, i2 \in images :
          i1.product_line = i2.product_line /\ i1.id # i2.id
              => i1.ordering # i2.ordering

\* C1: after any sequence of creates, updates and deletes, the orderings of
\* the lines of one product (of the images of one line) are pairwise
\* distinct positive integers.
C1_DistinctPositiveOrderings ==
    /\ OrderingsDistinct
    /\ \A r \in lines : r.ordering >= 1
    /\ \A i \in images : i.ordering >= 1

\* C2: a line (image) created with ordering unset gets 1 + the largest
\* ordering among the rows of its own product (line), 1 when there are none;
\* rows of other scopes do not count.
C2_AutoOrderingIsScopeMaxPlusOne ==
    [][ /\ CreatedLine /\ IsNone(last'.ord)
            => \E r \in lines' :
                  /\ r.id = last'.id
                  /\ r.ordering = NextAfter(LinesOf(last'.scope))
        /\ CreatedImage /\ IsNone(last'.ord)
            => \E i \in images' :
                  /\ i.id = last'.id
                  /\ i.ordering = NextAfter(ImagesOf(last'.scope))
      ]_vars

\* C3: from a state where product P has no lines, three lines created under
\* P without ordering, with no other write to P in between, store 1, 2, 3 in
\* this order.
C3_ThreeAutoLinesGet123 ==
    \A k \in 1..Len(streak.vals) : k <= 3 => streak.vals[k] = k

\* C4: creating a line under P with an explicit ordering that a line of P
\* already has fails, and leaves the lines as they were: still one line of P
\* with that ordering, no new row.
C4_DuplicateOrderingRejected ==
    [][ \A p \in products, v \in 0..MaxOrd :
           /\ ops' # ops
           /\ last'.op = "create_line"
           /\ last'.scope = p
           /\ last'.ord = Some(v)
           /\ \E r \in LinesOf(p) : r.ordering = v
           => /\ ~last'.ok
              /\ lines' = lines
              /\ nextLine' = nextLine
              /\ Cardinality({r \in lines' :
                                r.product = p /\ r.ordering = v}) = 1
      ]_vars

\* A state right after such a rejected create.
C4_Witness ==
    /\ last.op = "create_line"
    /\ ~last.ok
    /\ \E r \in LinesOf(last.scope) : last.ord = Some(r.ordering)

\* C5: uniqueness is per product: a line created under B with an explicit
\* ordering v that no line of B has is stored with ordering v also when a
\* line of another product A has ordering v, and that line of A stays.
C5_OrderingUniquePerProductOnly ==
    [][ \A a, b \in products, v \in 0..MaxOrd :
           /\ a # b
           /\ ops' # ops
           /\ last'.op = "create_line"
           /\ last'.scope = b
           /\ last'.ord = Some(v)
           /\ \E r \in LinesOf(a) : r.ordering = v
           /\ \A r \in LinesOf(b) : r.ordering # v
           => /\ last'.ok
              /\ \E r \in lines' :
                    r.id = last'.id /\ r.product = b /\ r.ordering = v
              /\ \E r \in lines' : r.product = a /\ r.ordering = v
      ]_vars

\* Two products each hold a line with the same ordering, the second one just
\* created with that ordering given.
C5_Witness ==
    /\ last.op = "create_line"
    /\ last.ok
    /\ ~IsNone(last.ord)
    /\ \E r1, r2 \in lines :
          /\ r1.id = last.id
          /\ r2.product # r1.product
          /\ r2.ordering = r1.ordering
          /\ last.ord = Some(r1.ordering)

\* C6: a line created with an explicit ordering v (a positive integer) under
\* a product that has no line with ordering v is stored, with exactly v.
C6_ExplicitOrderingKept ==
    [][ \A p \in products, v \in 1..MaxOrd :
           /\ ops' # ops
           /\ last'.op = "create_line"
           /\ last'.scope = p
           /\ last'.ord = Some(v)
           /\ \A r \in LinesOf(p) : r.ordering # v
           => /\ last'.ok
              /\ lines' = lines \cup
                    {[id |-> last'.id, product |-> p, ordering |-> v]}
              /\ last'.id \notin {r.id : r \in lines}
      ]_vars

\* A line just created with an explicit ordering that is not the one the
\* field would have assigned.
C6_Witness ==
    /\ last.op = "create_line"
    /\ last.ok
    /\ \E r \in lines :
          /\ r.id = last.id
          /\ last.ord = Some(r.ordering)
          /\ r.ordering # NextAfter(lines \ {r})
          /\ r.ordering # NextAfter(LinesOf(r.product) \ {r})

\* The step is an update of a product line (image), accepted or not.
UpdatedLine == ops' # ops /\ last'.op = "update_line"
UpdatedImage == ops' # ops /\ last'.op = "update_image"

\* C23: deleting a product line or a product image leaves every remaining
\* row as it was, its ordering included: the line delete removes the line
\* (and the images under it), the image delete removes the image, and no
\* other row is renumbered, so the gap of the deleted row stays.
C23_DeleteKeepsOrderings ==
    [][ /\ ops' # ops /\ last'.op = "delete_line"
              => /\ \A r \in lines : r.id # last'.id => r \in lines'
                 /\ lines' \subseteq lines
                 /\ \A i \in images :
                       i.product_line # last'.id => i \in images'
                 /\ images' \subseteq images
        /\ ops' # ops /\ last'.op = "delete_image"
              => /\ \A i \in images : i.id # last'.id => i \in images'
                 /\ images' \subseteq images
                 /\ lines' = lines
      ]_vars

\* A product line has just been deleted and left a gap: a line of the same
\* product has a larger ordering, and none has the ordering of the deleted
\* line.
C23_Witness ==
    /\ last.op = "delete_line"
    /\ \E r \in LinesOf(last.scope) : r.ordering > last.ord[1]
    /\ \A r \in LinesOf(last.scope) : r.ordering # last.ord[1]

\* The step saves a row of the kind named by `create` or `update` with
\* ordering unset.
SavedUnset(create, update) ==
    ops' # ops /\ last'.op \in {create, update} /\ IsNone(last'.ord)

\* C27: a product line or image saved with ordering unset passes
\* validation (which sees the ordering unset), and the value pre_save then
\* assigns differs from the ordering of every other row stored in the same
\* scope when it is assigned.
C27_AutoOrderingMeetsNoStoredRow ==
    [][ /\ SavedUnset("create_line", "update_line")
            => /\ ProductLine_full_clean(last'.id, last'.scope, None)
               /\ last'.ok
               /\ \E r \in lines' :
                     /\ r.id = last'.id
                     /\ \A x \in LinesOf(last'.scope) :
                           x.id # r.id => x.ordering # r.ordering
        /\ SavedUnset("create_image", "update_image")
            => /\ ProductImage_full_clean(last'.id, last'.scope, None)
               /\ last'.ok
               /\ \E i \in images' :
                     /\ i.id = last'.id
                     /\ \A x \in ImagesOf(last'.scope) :
                           x.id # i.id => x.ordering # i.ordering
      ]_vars

\* A line has just been created with ordering unset under a product that
\* has another line, whose ordering is not the number of its lines.
C27_Witness ==
    /\ last.op = "create_line"
    /\ IsNone(last.ord)
    /\ last.ok
    /\ \E x \in LinesOf(last.scope) :
          /\ x.id # last.id
          /\ x.ordering = Cardinality(LinesOf(last.scope))

\* C13: validation runs on the save of an update too: an update that sets
\* the ordering of a line (image) to a value another row of its scope has
\* is rejected, and the table is as it was.
C13_UpdateToDuplicateRejected ==
    [][ /\ (/\ UpdatedLine
            /\ \E r \in LinesOf(last'.scope) :
                  r.id # last'.id /\ last'.ord = Some(r.ordering))
           => ~last'.ok /\ lines' = lines
        /\ (/\ UpdatedImage
            /\ \E i \in ImagesOf(last'.scope) :
                  i.id # last'.id /\ last'.ord = Some(i.ordering))
           => ~last'.ok /\ images' = images
      ]_vars

\* A line whose update to the ordering of a sibling was just rejected: both
\* rows are there, with different orderings.
C13_Witness ==
    /\ last.op = "update_line"
    /\ ~last.ok
    /\ \E r1, r2 \in LinesOf(last.scope) :
          /\ r1.id = last.id
          /\ r2.id # r1.id
          /\ last.ord = Some(r2.ordering)
          /\ r1.ordering # r2.ordering

\* The step is a create or an update that supplies an ordering below 1.
SuppliesNonPositive ==
    /\ ops' # ops
    /\ last'.op \in {"create_line", "update_line",
                     "create_image", "update_image"}
    /\ ~IsNone(last'.ord)
    /\ last'.ord[1] < 1

\* C14: a create or update that supplies ordering 0 or a negative ordering
\* is rejected and nothing is stored; every stored ordering is at least 1.
C14_NonPositiveOrderingRejected ==
    [][ /\ SuppliesNonPositive
           => ~last'.ok /\ lines' = lines /\ images' = images
        /\ \A r \in lines' : r.ordering >= 1
        /\ \A i \in images' : i.ordering >= 1
      ]_vars

\* The join rows of variation v and product line pl in table T.
JoinRows(T, v, pl) == {r \in T : r.variation = v /\ r.product_line = pl}

\* C17: there is at most one ProductLineVariation row for each (variation,
\* product line) pair, and attaching a variation to a product line, the
\* first time or again, succeeds and leaves exactly one row of the pair.
C17_AttachIdempotent ==
    [][ /\ \A v \in Variations, pl \in 1..MaxLines :
              Cardinality(JoinRows(plvs', v, pl)) <= 1
        /\ (/\ ops' # ops
            /\ last'.op = "attach"
            /\ last'.id \in Variations
            /\ \E l \in lines : l.id = last'.scope)
           => /\ last'.ok
              /\ Cardinality(JoinRows(plvs', last'.id, last'.scope)) = 1
              /\ JoinRows(plvs, last'.id, last'.scope) # {} => plvs' = plvs
      ]_vars

\* A variation was just attached to a line it was attached to already: the
\* row of the pair is not the one created last.
C17_Witness ==
    /\ last.op = "attach"
    /\ last.ok
    /\ \E r \in JoinRows(plvs, last.id, last.scope) : r.id # nextPlv - 1

\* C18: the check of an OrderField reports an error exactly when the field
\* was declared without to_field or with a to_field that is not the name of
\* a field of its model.
C18_CheckReportsMisdeclaredScope ==
    chk.pc = "checked"
    => (chk.errors # <<>>
           <=> IsNone(chk.to_field) \/ chk.to_field[1] \notin chk.fields)

\* A checked declaration whose to_field names no field of the model.
C18_Witness ==
    /\ chk.pc = "checked"
    /\ ~IsNone(chk.to_field)
    /\ chk.to_field[1] \notin chk.fields
    /\ chk.errors # <<>>

\* The step saves the stored line (image) `row` with the scope and the
\* ordering it has.
ResavedLine(row) ==
    /\ UpdatedLine
    /\ last'.id = row.id
    /\ last'.scope = row.product
    /\ last'.ord = Some(row.ordering)

ResavedImage(row) ==
    /\ UpdatedImage
    /\ last'.id = row.id
    /\ last'.scope = row.product_line
    /\ last'.ord = Some(row.ordering)

\* C19: saving an existing line or image again with its ordering and its
\* scope unchanged always passes validation, and leaves the row as it is.
C19_ResaveUnchangedPasses ==
    [][ /\ \A l \in lines : ResavedLine(l) => last'.ok /\ lines' = lines
        /\ \A i \in images : ResavedImage(i) => last'.ok /\ images' = images
      ]_vars

\* C20: a save of an existing line with its product changed to Q (and an
\* ordering v the field accepts) is rejected, the row keeping its product
\* and ordering, if a line of Q has ordering v; and is accepted, the row
\* then being a line of Q with ordering v, if no line of Q has.
C20_ScopeChangeValidatedInNewScope ==
    [][ \A l \in lines, q \in products, v \in 0..MaxOrd :
           /\ UpdatedLine
           /\ last'.id = l.id
           /\ last'.scope = q
           /\ q # l.product
           /\ last'.ord = Some(v)
           => IF \E r \in LinesOf(q) : r.ordering = v
              THEN ~last'.ok /\ lines' = lines
              ELSE /\ last'.ok
                   /\ lines' = (lines \ {l}) \cup
                         {[id |-> l.id, product |-> q, ordering |-> v]}
      ]_vars

\* A line whose move to another product was just rejected: a line of that
\* product has the ordering, and no line of its own product has.
C20_Witness ==
    /\ last.op = "update_line"
    /\ ~last.ok
    /\ \E l \in lines :
          /\ l.id = last.id
          /\ l.product # last.scope
          /\ \E r \in LinesOf(last.scope) : last.ord = Some(r.ordering)
          /\ \A r \in LinesOf(l.product) : r.id # l.id
                => last.ord # Some(r.ordering)

----------------------------------------------------------------------------
(* Creates at the same time *)

\* C7: two creates of lines of one product, both with ordering unset and
\* running at the same time, never both store the same ordering.
C7_ConcurrentAutoCreatesDistinct ==
    \A r1, r2 \in Reqs :
        /\ r1 # r2
        /\ req[r1].pc = "saved" /\ req[r2].pc = "saved"
        /\ IsNone(req[r1].ord) /\ IsNone(req[r2].ord)
        /\ req[r1].product = req[r2].product
        => req[r1].val # req[r2].val

----------------------------------------------------------------------------
(* Properties of the category tree *)

\* The categories reached from c by following parent links once or more.
RECURSIVE AncestorsFrom(_, _, _)
AncestorsFrom(T, id, n) ==
    IF n = 0 \/ id = 0 \/ ~\E r \in T : r.id = id THEN {}
    ELSE LET p == Cat(T, id).parent
         IN IF p = 0 THEN {} ELSE {p} \cup AncestorsFrom(T, p, n - 1)

Ancestors(T, id) == AncestorsFrom(T, id, Cardinality(T))

\* C8: the parent graph is acyclic: no category is its own ancestor.
C8_ParentGraphAcyclic ==
    \A c \in cats : c.id \notin Ancestors(cats, c.id)

\* The step is an update of a category that asks for a parent which is the
\* category itself or one of its descendants.
CyclicReparent ==
    /\ catOps' # catOps
    /\ catLast'.op = "update"
    /\ \/ catLast'.parent = catLast'.id
       \/ catLast'.id \in Ancestors(cats, catLast'.parent)

ParentOf(T) == {<<r.id, r.parent>> : r \in T}

\* C9: an update that makes the parent of X either X or a descendant of X
\* fails, and leaves the parent of every category as it was.
C9_CyclicReparentRejected ==
    [][CyclicReparent => ~catLast'.ok /\ ParentOf(cats') = ParentOf(cats)]_vars

\* C10: deleting a category removes that category only: each of its children
\* is still there afterwards, with parent None.
C10_DeleteOrphansChildren ==
    [][ catOps' # catOps /\ catLast'.op = "delete"
          => /\ {r.id : r \in cats'} = {r.id : r \in cats} \ {catLast'.id}
             /\ \A r \in cats :
                   r.parent = catLast'.id => Cat(cats', r.id).parent = 0
      ]_vars

\* A category with two children has just been deleted, and both are roots.
C10_Witness ==
    /\ catLast.op = "delete"
    /\ Cardinality(catLast.kids) >= 2
    /\ \A k \in catLast.kids : \E r \in cats : r.id = k /\ r.parent = 0

\* C21: deleting category C changes the parent of the direct children of C
\* only: every other category that remains, the grandchildren of C among
\* them, has the parent it had before the delete.
C21_DeleteReparentsChildrenOnly ==
    [][ catOps' # catOps /\ catLast'.op = "delete"
          => \A r \in cats :
                r.id # catLast'.id /\ r.parent # catLast'.id
                   => /\ \E x \in cats' : x.id = r.id
                      /\ Cat(cats', r.id).parent = r.parent
      ]_vars

\* A category with a grandchild has just been deleted: the grandchild is
\* still the child of the (now root) child of the deleted category.
C21_Witness ==
    /\ catLast.op = "delete"
    /\ \E k \in catLast.kids, g \in cats :
          /\ g.parent = k
          /\ \E r \in cats : r.id = k /\ r.parent = 0

\* The ids of the categories deleted so far: ids are handed out in
\* sequence and never used again.
DeletedCats(T, next) == (1..(next - 1)) \ {r.id : r \in T}

\* C22: after every step, a category delete among them, no category that
\* remains has a deleted category as parent and no product has one as its
\* category; and the products of a category that is deleted are still
\* there after the delete, with no category.
C22_NoReferenceToDeletedCategory ==
    [][ /\ \A d \in DeletedCats(cats', nextCat') :
             /\ \A r \in cats' : r.parent # d
             /\ \A p \in prods' : p.category # d
        /\ catOps' # catOps /\ catLast'.op = "delete"
              => \A p \in prods :
                    p.category = catLast'.id
                       => \E q \in prods' : q.id = p.id /\ q.category = 0
      ]_vars

\* A category that had a child and a product has just been deleted: the
\* child and the product are there, the child a root and the product
\* without category.
C22_Witness ==
    /\ catLast.op = "delete"
    /\ \E k \in catLast.kids : \E r \in cats : r.id = k /\ r.parent = 0
    /\ \E i \in catLast.items : \E p \in prods : p.id = i /\ p.category = 0

\* The categories reached from id by following child links once or more.
Reachable(T, id) == {r.id : r \in {x \in T : id \in Ancestors(T, x.id)}}

\* C11: for every category n, descendants(n, include_self=True) is n with
\* the categories reachable from n over child links, and
\* descendants(n, include_self=False) is the latter set alone.
C11_DescendantsAreReachable ==
    \A n \in cats :
        /\ GetDescendants(cats, n, TRUE) = {n.id} \cup Reachable(cats, n.id)
        /\ GetDescendants(cats, n, FALSE) = Reachable(cats, n.id) \ {n.id}

----------------------------------------------------------------------------
(* Properties of the product table *)

\* C12: listing the products with a category filter naming a category of
\* the requesting user gives exactly the active products of that user whose
\* category is the named one or is reachable from it over child links.
C12_ListUnderCategory ==
    \A u \in Users, c \in cats :
        catUser[c.id] = u
        => ProductList(u, c.id) =
              {p.id : p \in {x \in prods :
                  /\ x.user = u /\ x.active
                  /\ x.category \in {c.id} \cup Reachable(cats, c.id)}}

C16_SlugsUnique ==
    \A p, q \in prods : p.id # q.id => p.slug # q.slug

----------------------------------------------------------------------------
(* Requests of the users on product lines, images and variations            *)
(* (ProductLineViewSet, ProductImageViewSet, AttributeViewSet)              *)

\* Restriction of a user column to the rows that remain.
Restrict(f, ids) == [i \in DOMAIN f \cap ids |-> f[i]]

\* The slugs a request may name: those of the products named tea or mug
\* created at clock reading 1.5
ApiNames == {<<"t", "e", "a">>, <<"m", "u", "g">>}

ApiSlugs == {Product_save(TRUE, n, <<"1", ".", "5">>, <<>>) : n \in ApiNames}

\* Mutant: the product is looked up by its slug alone.
GetProductOr404_any_user(P, slug, user) == {p \in P : p.slug = slug}

\* get_object_or_404(Product, slug=product_slug, user=auth_user): the rows
\* the lookup matches (none: Http404; several: MultipleObjectsReturned).
GetProductOr404(P, slug, user) == {p \in P : p.slug = slug /\ p.user = user}

\* POST product-line/ by `user`: CreateProductLineSerializer.create looks
\* the product up and then calls ProductLine.objects.create(product=...,
\* user=user, ordering=o); full_clean may refuse the row.
ApiCreateProductLine(user, slug, o) ==
    /\ LET found == GetProductOr404(prods, slug, user)
       IN IF Cardinality(found) # 1
          THEN /\ ops < MaxOps
               /\ ops' = ops + 1
               /\ last' = Op("create_line", 0, 0, o, FALSE)
               /\ apiLast' = ApiOp("create_line", user, slug,
                                   IF found = {} THEN "not_found" ELSE "error")
               /\ UNCHANGED <<lines, nextLine, images, nextImage, streak,
                              plvs, nextPlv, lineUser>>
          ELSE /\ CreateProductLine((CHOOSE p \in found : TRUE).id, o)
               /\ lineUser' = IF last'.ok THEN (nextLine :> user) @@ lineUser
                               ELSE lineUser
               /\ apiLast' = ApiOp("create_line", user, slug,
                                   IF last'.ok THEN "created" ELSE "invalid")
    /\ UNCHANGED <<imageUser, plvUser>>
    /\ UNCHANGED <<req, chk, catVars, prodVars, attrVars>>

\* get_object_or_404(ProductLine, id=product_line_id): the rows the lookup
\* matches.  The requesting user is no part of the lookup.
GetProductLineOr404(L, id, user) == {l \in L : l.id = id}

\* POST product-image/ by `user`: CreateProductImageSerializer.create looks
\* the product line up and then calls ProductImage.objects.create(
\* product_line=..., user=user, ordering=o).
ApiCreateProductImage(user, pl, o) ==
    /\ IF GetProductLineOr404(lines, pl, user) = {}
       THEN /\ ops < MaxOps
            /\ ops' = ops + 1
            /\ last' = Op("create_image", 0, 0, o, FALSE)
            /\ apiLast' = ApiOp("create_image", user, pl, "not_found")
            /\ UNCHANGED <<lines, nextLine, images, nextImage, streak,
                           plvs, nextPlv, imageUser>>
       ELSE /\ CreateProductImage(pl, o)
            /\ imageUser' = IF last'.ok THEN (nextImage :> user) @@ imageUser
                             ELSE imageUser
            /\ apiLast' = ApiOp("create_image", user, pl,
                                IF last'.ok THEN "created" ELSE "invalid")
    /\ UNCHANGED <<lineUser, plvUser>>
    /\ UNCHANGED <<req, chk, catVars, prodVars, attrVars>>

\* POST product-line/<pl>/attach-variation/<v> by `user`: get_object()
\* finds the line in the queryset of the user's lines (404 otherwise); the
\* join row is created with user=request.user.
ApiAttachVariation(user, pl, v) ==
    /\ IF ~\E l \in lines : l.id = pl /\ lineUser[l.id] = user
       THEN /\ ops < MaxOps
            /\ ops' = ops + 1
            /\ last' = Op("attach", v, pl, None, FALSE)
            /\ apiLast' = ApiOp("attach", user, <<pl, v>>, "not_found")
            /\ UNCHANGED <<lines, nextLine, images, nextImage, streak,
                           plvs, nextPlv, plvUser>>
       ELSE /\ AttachVariation(pl, v)
            /\ plvUser' = IF nextPlv' # nextPlv
                           THEN (nextPlv :> user) @@ plvUser ELSE plvUser
            /\ apiLast' = ApiOp("attach", user, <<pl, v>>,
                                IF last'.ok THEN "done" ELSE "error")
    /\ UNCHANGED <<lineUser, imageUser>>
    /\ UNCHANGED <<req, chk, catVars, prodVars, attrVars>>

\* POST product-line/<pl>/detach-variation/<v> by `user`: the join row is
\* looked up by the two ids and deleted.
ApiDetachVariation(user, pl, v) ==
    /\ DetachVariation(pl, v)
    /\ plvUser' = Restrict(plvUser, {r.id : r \in plvs'})
    /\ apiLast' = ApiOp("detach", user, <<pl, v>>,
                        IF last'.ok THEN "done" ELSE "not_found")
    /\ UNCHANGED <<lineUser, imageUser>>
    /\ UNCHANGED <<req, chk, catVars, prodVars, attrVars>>

\* DELETE attribute/<pk>/variation-delete/<v> by `user`:
\* Variation.objects.get(id=v, attribute_id=pk).delete(); the join rows of
\* the variation go with it (CASCADE).  DoesNotExist is not caught.
ApiVariationDelete(user, pk, v) ==
    /\ ops < MaxOps
    /\ ops' = ops + 1
    /\ LET found == {r \in variationRows : r.id = v /\ r.attribute = pk}
       IN IF found = {}
          THEN /\ UNCHANGED <<variationRows, plvs, plvUser>>
               /\ last' = Op("variation_delete", v, pk, None, FALSE)
               /\ apiLast' = ApiOp("variation_delete", user, <<pk, v>>, "error")
          ELSE /\ variationRows' = variationRows \ found
               /\ plvs' = {r \in plvs : r.variation # v}
               /\ plvUser' = Restrict(plvUser, {r.id : r \in plvs'})
               /\ last' = Op("variation_delete", v, pk, None, TRUE)
               /\ apiLast' = ApiOp("variation_delete", user, <<pk, v>>, "done")
    /\ UNCHANGED <<lines, nextLine, images, nextImage, streak, nextPlv,
                   lineUser, imageUser>>
    /\ UNCHANGED <<req, chk, catVars, prodVars>>
    /\ UNCHANGED <<attrs, nextAttr, catAttrs, prodAttrs, attrLast>>

\* Requests of the two users: at most ApiProds products (named tea or mug),
\* and at most ApiOps requests on product lines, images and variations.
NextApi ==
    \/ \E user \in Users, name \in ApiNames :
          nextProd <= ApiProds
              /\ CreateProduct(user, name, <<"1", ".", "5">>, TRUE, 0)
    \/ \E user \in Users, slug \in ApiSlugs, o \in {None, Some(1)} :
          ops < ApiOps /\ ApiCreateProductLine(user, slug, o)
    \/ \E user \in Users, pl \in 1..MaxLines, o \in {None, Some(1)} :
          ops < ApiOps /\ ApiCreateProductImage(user, pl, o)
    \/ \E user \in Users, pl \in 1..MaxLines, v \in Variations :
          ops < ApiOps /\ nextPlv <= MaxPlvs
              /\ ApiAttachVariation(user, pl, v)
    \/ \E user \in Users, pl \in 1..MaxLines, v \in Variations :
          ops < ApiOps /\ ApiDetachVariation(user, pl, v)
    \/ \E user \in Users, a \in attrs, v \in Variations :
          ops < ApiOps /\ ApiVariationDelete(user, a.id, v)

SpecApi == Init /\ [][NextApi]_vars

----------------------------------------------------------------------------
(* Properties of the attributes of categories and products *)

\* C24: a category update that is rejected because the new parent is the
\* category itself or one of its descendants changes nothing: besides the
\* parents, the attributes attached to the categories are the same after
\* the request as before it.
C24_RejectedCyclicUpdateAppliesNothing ==
    [][ CyclicReparent /\ ~catLast'.ok
          => /\ ParentOf(cats') = ParentOf(cats)
             /\ catAttrs' = catAttrs
      ]_vars

\* The attributes of `user` that a payload list names: the rows of the user
\* whose name is the lower-cased form of a name of the list.
CatAttached(T, c) == {r.attribute : r \in {x \in T : x.category = c}}

ProdAttached(T, p) == {r.attribute : r \in {x \in T : x.product = p}}

Named(A, user, attributes) ==
    {a.id : a \in {x \in A : /\ x.user = user
                              /\ \E i \in DOMAIN attributes :
                                    x.name = LowerStr(attributes[i])}}

\* The step is an update request of the kind `name` that has completed.
Updated(name) == attrLast' # attrLast /\ attrLast'.op = name /\ attrLast'.ok

\* C26: after an update of a category or a product whose payload carries an
\* attributes list, the attributes attached to it are exactly the attributes
\* of its user with the lower-cased names of the list, one for each name
\* (created by the request when the user had none): so whatever was
\* attached before and is not named is detached.
C26_UpdateReplacesAttributes ==
    [][ /\ (Updated("update_category") /\ ~IsNone(attrLast'.attributes))
            => LET c == attrLast'.id
                   list == attrLast'.attributes[1]
               IN /\ CatAttached(catAttrs', c) = Named(attrs', catUser[c], list)
                  /\ \A i \in DOMAIN list :
                        \E a \in attrs' :
                           /\ a.id \in CatAttached(catAttrs', c)
                           /\ a.name = LowerStr(list[i])
        /\ (Updated("update_product") /\ ~IsNone(attrLast'.attributes))
            => LET p == CHOOSE x \in prods : x.id = attrLast'.id
                   list == attrLast'.attributes[1]
               IN /\ ProdAttached(prodAttrs', p.id) = Named(attrs', p.user, list)
                  /\ \A i \in DOMAIN list :
                        \E a \in attrs' :
                           /\ a.id \in ProdAttached(prodAttrs', p.id)
                           /\ a.name = LowerStr(list[i])
      ]_vars

\* An update with an attributes list has just completed: an attribute that
\* was attached and is not named is detached, and an attribute the user did
\* not have was created and is attached.
C26_Witness ==
    /\ attrLast.op \in {"update_category", "update_product"}
    /\ attrLast.ok
    /\ ~IsNone(attrLast.attributes)
    /\ LET now == IF attrLast.op = "update_category"
                  THEN Category_attributes(attrLast.id)
                  ELSE Product_attributes(attrLast.id)
       IN /\ \E b \in attrLast.before : b \notin now
          /\ \E a \in now : a > Cardinality(AttributeFixture)

\* C30: an update of a category or a product whose payload has no attributes
\* key leaves the attributes attached to it as they were.
C30_UpdateWithoutAttributesKeepsThem ==
    [][ /\ (attrLast' # attrLast /\ attrLast'.op = "update_category"
               /\ IsNone(attrLast'.attributes))
            => CatAttached(catAttrs', attrLast'.id) = attrLast'.before
        /\ (attrLast' # attrLast /\ attrLast'.op = "update_product"
               /\ IsNone(attrLast'.attributes))
            => ProdAttached(prodAttrs', attrLast'.id) = attrLast'.before
      ]_vars

----------------------------------------------------------------------------
(* Properties of the requests of the users *)

\* The step is a request of the kind `name` on lines, images or variations.
Requested(name) == ops' # ops /\ apiLast'.op = name

\* C25: a request to create a product line that names a slug which is not
\* the slug of a product of the requesting user is answered not found, and
\* creates no product line.
C25_LineOfUnownedProductNotFound ==
    [][ (/\ Requested("create_line")
         /\ ~\E p \in prods : /\ p.slug = apiLast'.ref
                               /\ p.user = apiLast'.user)
          => /\ apiLast'.status = "not_found"
             /\ lines' = lines
             /\ nextLine' = nextLine
      ]_vars

\* A user has just asked for a line under the product of another user, and
\* was answered not found.
C25_Witness ==
    /\ apiLast.op = "create_line"
    /\ apiLast.status = "not_found"
    /\ \E p \in prods : p.slug = apiLast.ref /\ p.user # apiLast.user

\* C28: a request to create a product image succeeds only when the product
\* line it names belongs to the requesting user: a request that names a
\* line of another user creates no image.
C28_ImageOnlyUnderOwnLine ==
    [][ (/\ Requested("create_image")
         /\ \E l \in lines : /\ l.id = apiLast'.ref
                               /\ lineUser[l.id] # apiLast'.user)
          => /\ apiLast'.status # "created"
             /\ images' = images
      ]_vars

\* C29: a detach-variation or variation-delete request of user U removes
\* only rows of U: every ProductLineVariation row and every Variation row
\* that the request removes has U in its user column.
C29_RemovesOnlyOwnRows ==
    [][ Requested("detach") \/ Requested("variation_delete")
          => /\ \A r \in plvs :
                   r \notin plvs' => plvUser[r.id] = apiLast'.user
             /\ \A r \in variationRows :
                   r \notin variationRows' => r.user = apiLast'.user
      ]_vars

====
